---- MODULE Spec2Model ----
(***************************************************************************)
(* The loop and chapter playback controller of guitar-looper: the          *)
(* VideoPlayer component (src/src/components/VideoPlayer.tsx) as mounted   *)
(* by App (src/src/App.tsx), together with the collaborators it talks to:  *)
(* the <video> element, localStorage, the clock and the chapter            *)
(* extraction backend.                                                     *)
(*                                                                         *)
(* One action is one event handler followed by the re-render it causes     *)
(* and the effects of that re-render, in the order the component declares  *)
(* them (load, save, chapter trigger, active loop handling).               *)
(***************************************************************************)
EXTENDS Integers, Sequences, FiniteSets, TLC

VARIABLES
    src,            \* prop src: the video key ("" while App shows the dashboard)
    isPlaying,      \* useState isPlaying
    currentTime,    \* useState currentTime: the position last reported by timeupdate
    duration,       \* useState duration (0 = unknown)
    loops,          \* useState loops
    chapters,       \* useState chapters
    activeLoopId,   \* useState activeLoopId (NoId = null)
    isLooping,      \* useState isLooping
    showAddLoop,    \* useState showAddLoop: the naming dialog is open
    newLoopName,    \* useState newLoopName: the text of the naming input
    tempLoopStart,  \* useState tempLoopStart (NoTime = null)
    tempLoopEnd,    \* useState tempLoopEnd (NoTime = null)
    activeTab,      \* useState activeTab
    videoTime,      \* videoRef.current.currentTime: the element's position
    videoDuration,  \* videoRef.current.duration (0 = metadata not loaded)
    pendingUpdate,  \* a timeupdate event of the element awaits its listener
    storage,        \* localStorage, one entry per video key
    now,            \* Date.now()
    timer,          \* the chapter trigger's setTimeout is pending
    inflight,       \* chapter detections awaiting the backend, per file: whether
                    \* the one started last is among them, and how many others
    crashed,        \* a render threw: React has unmounted the tree
    saveFailed      \* the most recent localStorage.setItem threw (it was logged)

vars == << src, isPlaying, currentTime, duration, loops, chapters, activeLoopId,
           isLooping, showAddLoop, newLoopName, tempLoopStart, tempLoopEnd,
           activeTab, videoTime, videoDuration, pendingUpdate, storage, now, timer, inflight,
           crashed, saveFailed >>

---------------------------------------------------------------------------
(* Bounds of the model *)

\* positions are the multiples of ChapterSpan up to ChapterSpan * MaxTick
MaxTick == 2
\* the clock reads 0 .. MaxClock
MaxClock == 1
\* at most MaxLoops loops are held in memory for a video
MaxLoops == 2
\* at most MaxInflight chapter detections await the backend for one file
MaxInflight == 2
\* the duration of a clip too short for chapter detection
ShortClip == 15
\* the furthest the element plays between two timeupdate events
UpdateStep == 20

(* Program constants *)

\* chapter.start + 30: the span synthesised for a chapter without an end
ChapterSpan == 30
\* duration < 30: clips below this are not probed for chapters
MinChapterDuration == 30
\* useState<number | null>(null)
NoTime == -1

NoId == "null"
NoSrc == ""
Videos == {"A", "B"}
loopColors == << "#28a745", "#dc3545", "#007bff", "#ffc107", "#6f42c1", "#20c997" >>
tabOrder == << "loops", "chapters", "info" >>

Times == { ChapterSpan * k : k \in 0..MaxTick }
LongClip == ChapterSpan * MaxTick
Durations == { ShortClip, LongClip }

\* what the user can type into the naming input: sequences of characters
Names == { << >>, << " " >>, << "S" >>, << " ", "S", " " >> }

Min(a, b) == IF a <= b THEN a ELSE b
Max(a, b) == IF a >= b THEN a ELSE b

---------------------------------------------------------------------------
(* Pure helpers *)

\* String.prototype.trim on a sequence of characters
RECURSIVE TrimLeft(_)
TrimLeft(s) ==
    IF s # << >> /\ Head(s) = " " THEN TrimLeft(Tail(s)) ELSE s

RECURSIVE TrimRight(_)
TrimRight(s) ==
    IF s # << >> /\ s[Len(s)] = " " THEN TrimRight(SubSeq(s, 1, Len(s) - 1)) ELSE s

trim(s) == TrimRight(TrimLeft(s))

\* Date.now().toString()
NewId == ToString(now)

\* loopColors[loops.length % loopColors.length]
NextColor(ls) == loopColors[(Len(ls) % Len(loopColors)) + 1]

\* loops.find(loop => loop.id === id): the index of the first match, 0 if none
RECURSIVE FindFrom(_, _, _)
FindFrom(ls, id, i) ==
    IF i > Len(ls) THEN 0
    ELSE IF ls[i].id = id THEN i
    ELSE FindFrom(ls, id, i + 1)

FindLoop(ls, id) == FindFrom(ls, id, 1)

\* prev.filter(loop => loop.id !== loopId)
RECURSIVE FilterOut(_, _)
FilterOut(ls, id) ==
    IF ls = << >> THEN << >>
    ELSE IF Head(ls).id = id THEN FilterOut(Tail(ls), id)
    ELSE << Head(ls) >> \o FilterOut(Tail(ls), id)

\* video.currentTime = t: the element clamps a seek to [0, duration]; targets
\* are never negative here, and before the metadata is known the element keeps
\* t as the position to start from
Clamp(t) == IF videoDuration > 0 /\ t > videoDuration THEN videoDuration ELSE t

(* localStorage payloads.  A stored value is the text JSON.stringify wrote, *)
(* kept as the sequence of its items' field lists, or one of the texts the  *)
(* component did not write itself.                                          *)
Absent  == [kind |-> "absent",  items |-> << >>]    \* getItem returns null
Garbage == [kind |-> "garbage", items |-> << >>]    \* JSON.parse throws
NonSeq  == [kind |-> "nonseq",  items |-> << >>]    \* valid JSON, not an array

\* JSON.stringify(loops)
Stringify(ls) ==
    [kind |-> "array",
     items |-> [i \in 1..Len(ls) |->
                  << ls[i].id, ls[i].name, ls[i].start, ls[i].end, ls[i].color >>]]

\* JSON.parse(savedLoops) of a stored array
Parse(p) ==
    [i \in 1..Len(p.items) |->
        [id |-> p.items[i][1], name |-> p.items[i][2], start |-> p.items[i][3],
         end |-> p.items[i][4], color |-> p.items[i][5]]]

\* the load effect's try block: what setLoops receives for a stored payload
LoadLoops(p) ==
    IF p.kind = "array" THEN Parse(p) ELSE << >>

\* rendering a loops state that is no array throws (loops.length, loops.map)
RenderThrows(p) == p.kind = "nonseq"

\* the save effect: the store after it ran for (key, ls); ok = setItem did not throw
SaveEffect(st, key, ls, ok) ==
    IF key = NoSrc \/ Len(ls) = 0 THEN st
    ELSE IF ok THEN [st EXCEPT ![key] = Stringify(ls)]
    ELSE st

\* whether the save effect calls setItem at all
SaveAttempted(key, ls) == key # NoSrc /\ Len(ls) # 0

\* a variant of LoopSeeks that lets the position rest on the loop's end
LoopSeeksPastEnd(looping, activeId, ls, ct) ==
    /\ looping
    /\ activeId # NoId
    /\ LET i == FindLoop(ls, activeId) IN i # 0 /\ ct > ls[i].end

\* the active loop handling effect: whether it assigns video.currentTime
LoopSeeks(looping, activeId, ls, ct) ==
    /\ looping
    /\ activeId # NoId
    /\ LET i == FindLoop(ls, activeId) IN i # 0 /\ ct >= ls[i].end

\* a variant of LoopTarget that sends the element to the loop's end
LoopTargetEnd(activeId, ls) == Clamp(ls[FindLoop(ls, activeId)].end)

\* the position the active loop handling effect seeks to
LoopTarget(activeId, ls) == Clamp(ls[FindLoop(ls, activeId)].start)

(* Chapter detections in flight for one file.  detectChapters awaits the   *)
(* backend (invoke), so calls overlap and complete in any order; latest    *)
(* tells whether the call started last still awaits its answer, older      *)
(* counts the calls started before it that do.                             *)
NoRequests == [older |-> 0, latest |-> FALSE]

\* the number of detections awaiting the backend
Pending(r) == r.older + (IF r.latest THEN 1 ELSE 0)

\* one more detectChapters call reaches its await: it is the latest now
Issue(r) == [older |-> Pending(r), latest |-> TRUE]

\* one call's await returns: the latest's, or that of one started before it
Complete(r, latest) ==
    IF latest THEN [r EXCEPT !.latest = FALSE] ELSE [r EXCEPT !.older = @ - 1]

---------------------------------------------------------------------------
(* The state after construction: App shows the dashboard, no player is   *)
(* mounted, and localStorage holds whatever earlier sessions left.        *)

InitPlayer ==
    /\ src = NoSrc
    /\ isPlaying = FALSE
    /\ currentTime = 0
    /\ duration = 0
    /\ loops = << >>
    /\ chapters = << >>
    /\ activeLoopId = NoId
    /\ isLooping = FALSE
    /\ showAddLoop = FALSE
    /\ newLoopName = << >>
    /\ tempLoopStart = NoTime
    /\ tempLoopEnd = NoTime
    /\ activeTab = "loops"
    /\ videoTime = 0
    /\ videoDuration = 0
    /\ pendingUpdate = FALSE
    /\ now = 0
    /\ timer = FALSE
    /\ inflight = [v \in Videos |-> NoRequests]
    /\ crashed = FALSE
    /\ saveFailed = FALSE

\* localStorage holds nothing, or what something other than this player left
Init ==
    /\ InitPlayer
    /\ storage \in [Videos -> {Absent, Garbage, NonSeq}]

\* a player is mounted and rendering
Mounted == src # NoSrc /\ ~crashed

\* the component state a fresh mount starts from
FreshState ==
    /\ isPlaying' = FALSE
    /\ currentTime' = 0
    /\ duration' = 0
    /\ loops' = << >>
    /\ chapters' = << >>
    /\ activeLoopId' = NoId
    /\ isLooping' = FALSE
    /\ showAddLoop' = FALSE
    /\ newLoopName' = << >>
    /\ tempLoopStart' = NoTime
    /\ tempLoopEnd' = NoTime
    /\ activeTab' = "loops"
    /\ videoTime' = 0
    /\ videoDuration' = 0
    /\ pendingUpdate' = FALSE
    /\ timer' = FALSE

\* a variant of ResetOnVideoChange that keeps the chapter list
ResetKeepsChapters ==
    /\ activeLoopId' = NoId
    /\ isLooping' = FALSE
    /\ tempLoopStart' = NoTime
    /\ tempLoopEnd' = NoTime
    /\ chapters' = chapters

\* the load effect's "Reset states when video changes"
ResetOnVideoChange ==
    /\ activeLoopId' = NoId
    /\ isLooping' = FALSE
    /\ tempLoopStart' = NoTime
    /\ tempLoopEnd' = NoTime
    /\ chapters' = << >>

(* The video source changes (App passes a new src and filePath): the      *)
(* render with the new src runs the load effect, then the save effect     *)
(* with the loops still in state, then the chapter trigger; the render    *)
(* with the loaded loops runs the save effect again.                      *)
SelectVideo(v, ok1, ok2) ==
    /\ ~crashed
    /\ v # src
    /\ LET payload == storage[v]
           loaded  == LoadLoops(payload)
           st1     == SaveEffect(storage, v, loops, ok1)
           st2     == SaveEffect(st1, v, loaded, ok2)
       IN IF RenderThrows(payload)
          THEN /\ crashed' = TRUE
               /\ FreshState
               /\ storage' = st1
               /\ saveFailed' = IF SaveAttempted(v, loops) THEN ~ok1 ELSE saveFailed
          ELSE /\ crashed' = FALSE
               /\ loops' = loaded
               /\ ResetOnVideoChange
               /\ timer' = (duration > 0)
               /\ videoTime' = 0
               /\ videoDuration' = 0
               /\ pendingUpdate' = (pendingUpdate \/ videoTime # 0)
               /\ storage' = st2
               /\ saveFailed' = IF SaveAttempted(v, loaded) THEN ~ok2
                                ELSE IF SaveAttempted(v, loops) THEN ~ok1
                                ELSE saveFailed
               /\ UNCHANGED << isPlaying, currentTime, duration, showAddLoop,
                               newLoopName, activeTab >>
    /\ src' = v
    /\ UNCHANGED << now, inflight >>

(* A fresh session: the application is started again.  Only localStorage  *)
(* and the clock survive.                                                 *)
Restart ==
    /\ src # NoSrc
    /\ src' = NoSrc
    /\ FreshState
    /\ crashed' = FALSE
    /\ saveFailed' = FALSE
    /\ inflight' = [v \in Videos |-> NoRequests]
    /\ UNCHANGED << storage, now >>

---------------------------------------------------------------------------
(* Time source: the <video> element and its listeners *)

\* loadedmetadata / durationchange -> updateDuration; the chapter trigger effect
\* re-arms its timer when the duration state changes
Metadata(d) ==
    /\ Mounted
    /\ d # videoDuration
    /\ videoDuration' = d
    /\ videoTime' = Min(videoTime, d)
    /\ pendingUpdate' = (pendingUpdate \/ videoTime > d)
    /\ duration' = d
    /\ timer' = IF d # duration THEN d > 0 ELSE timer
    /\ UNCHANGED << src, isPlaying, currentTime, loops, chapters, activeLoopId,
                    isLooping, showAddLoop, newLoopName, tempLoopStart,
                    tempLoopEnd, activeTab, storage, now, inflight, crashed,
                    saveFailed >>

\* playback moves the element's position forward; a timeupdate is queued
Advance(t) ==
    /\ Mounted
    /\ t > videoTime
    /\ t <= videoDuration
    /\ videoTime' = t
    /\ pendingUpdate' = TRUE
    /\ UNCHANGED << src, isPlaying, currentTime, duration, loops, chapters,
                    activeLoopId, isLooping, showAddLoop, newLoopName,
                    tempLoopStart, tempLoopEnd, activeTab, videoDuration,
                    storage, now, timer, inflight, crashed, saveFailed >>

\* playback between two timeupdate events: the element plays on by at most
\* UpdateStep, up to the end of the video, and reports the new position before
\* it plays further
Play ==
    /\ ~pendingUpdate
    /\ videoTime < videoDuration
    /\ Advance(Min(videoTime + UpdateStep, videoDuration))

\* timeupdate -> updateTime: setCurrentTime(video.currentTime); when the state
\* changes, the active loop handling effect runs with the new currentTime
TimeUpdate ==
    /\ Mounted
    /\ pendingUpdate
    /\ currentTime' = videoTime
    /\ IF videoTime # currentTime
          /\ LoopSeeks(isLooping, activeLoopId, loops, videoTime)
       THEN /\ videoTime' = LoopTarget(activeLoopId, loops)
            /\ pendingUpdate' = TRUE
       ELSE /\ videoTime' = videoTime
            /\ pendingUpdate' = FALSE
    /\ UNCHANGED << src, isPlaying, duration, loops, chapters, activeLoopId,
                    isLooping, showAddLoop, newLoopName, tempLoopStart,
                    tempLoopEnd, activeTab, videoDuration, storage, now, timer,
                    inflight, crashed, saveFailed >>

\* handleProgressClick: video.currentTime = percentage * duration
handleProgressClick(t) ==
    /\ Mounted
    /\ t <= duration
    /\ videoTime' = Clamp(t)
    /\ pendingUpdate' = TRUE
    /\ UNCHANGED << src, isPlaying, currentTime, duration, loops, chapters,
                    activeLoopId, isLooping, showAddLoop, newLoopName,
                    tempLoopStart, tempLoopEnd, activeTab, videoDuration,
                    storage, now, timer, inflight, crashed, saveFailed >>

\* togglePlay (the Play button or Space)
togglePlay ==
    /\ Mounted
    /\ isPlaying' = ~isPlaying
    /\ UNCHANGED << src, currentTime, duration, loops, chapters, activeLoopId,
                    isLooping, showAddLoop, newLoopName, tempLoopStart,
                    tempLoopEnd, activeTab, videoTime, videoDuration,
                    pendingUpdate, storage, now, timer, inflight, crashed,
                    saveFailed >>

\* Date.now() moves on
ClockTick ==
    /\ now < MaxClock
    /\ now' = now + 1
    /\ UNCHANGED << src, isPlaying, currentTime, duration, loops, chapters,
                    activeLoopId, isLooping, showAddLoop, newLoopName,
                    tempLoopStart, tempLoopEnd, activeTab, videoTime,
                    videoDuration, pendingUpdate, storage, timer, inflight,
                    crashed, saveFailed >>

---------------------------------------------------------------------------
(* Temp marker workflow *)

\* KeyA / the A Point button: setTempLoopStart(currentTime)
markStart ==
    /\ Mounted
    /\ tempLoopStart' = currentTime
    /\ UNCHANGED << src, isPlaying, currentTime, duration, loops, chapters,
                    activeLoopId, isLooping, showAddLoop, newLoopName,
                    tempLoopEnd, activeTab, videoTime, videoDuration,
                    pendingUpdate, storage, now, timer, inflight, crashed,
                    saveFailed >>

\* KeyB / the B Point button: setTempLoopEnd(currentTime)
markEnd ==
    /\ Mounted
    /\ tempLoopEnd' = currentTime
    /\ UNCHANGED << src, isPlaying, currentTime, duration, loops, chapters,
                    activeLoopId, isLooping, showAddLoop, newLoopName,
                    tempLoopStart, activeTab, videoTime, videoDuration,
                    pendingUpdate, storage, now, timer, inflight, crashed,
                    saveFailed >>

\* KeyN / the Save Loop button: setShowAddLoop(true) when both points are set
requestCommit ==
    /\ Mounted
    /\ tempLoopStart # NoTime
    /\ tempLoopEnd # NoTime
    /\ showAddLoop' = TRUE
    /\ UNCHANGED << src, isPlaying, currentTime, duration, loops, chapters,
                    activeLoopId, isLooping, newLoopName, tempLoopStart,
                    tempLoopEnd, activeTab, videoTime, videoDuration,
                    pendingUpdate, storage, now, timer, inflight, crashed,
                    saveFailed >>

\* the naming input's onChange: setNewLoopName(e.target.value)
typeName(n) ==
    /\ Mounted
    /\ showAddLoop
    /\ newLoopName' = n
    /\ UNCHANGED << src, isPlaying, currentTime, duration, loops, chapters,
                    activeLoopId, isLooping, showAddLoop, tempLoopStart,
                    tempLoopEnd, activeTab, videoTime, videoDuration,
                    pendingUpdate, storage, now, timer, inflight, crashed,
                    saveFailed >>

\* a variant of NewLoop that takes the markers in the order A, B
NewLoopAsMarked ==
    [id    |-> NewId,
     name  |-> trim(newLoopName),
     start |-> tempLoopStart,
     end   |-> tempLoopEnd,
     color |-> NextColor(loops)]

\* the loop addLoop constructs
NewLoop ==
    [id    |-> NewId,
     name  |-> trim(newLoopName),
     start |-> Min(tempLoopStart, tempLoopEnd),
     end   |-> Max(tempLoopStart, tempLoopEnd),
     color |-> NextColor(loops)]

\* a variant of AddLoopRejects that tests the name without trimming it
AddLoopRejectsEmpty ==
    tempLoopStart = NoTime \/ tempLoopEnd = NoTime \/ newLoopName = << >>

\* addLoop's early return
AddLoopRejects ==
    tempLoopStart = NoTime \/ tempLoopEnd = NoTime \/ trim(newLoopName) = << >>

\* a variant of AfterSetLoops whose save effect writes the collection of the
\* render before
AfterSetLoopsStale(ls, looping, activeId, ok) ==
    /\ storage' = SaveEffect(storage, src, loops, ok)
    /\ saveFailed' = IF SaveAttempted(src, ls) THEN ~ok ELSE saveFailed
    /\ IF LoopSeeks(looping, activeId, ls, currentTime)
       THEN /\ videoTime' = LoopTarget(activeId, ls)
            /\ pendingUpdate' = TRUE
       ELSE UNCHANGED << videoTime, pendingUpdate >>

\* the re-render after setLoops(ls): the save effect, then the active loop
\* handling effect with the looping state (looping, activeId) of that render
AfterSetLoops(ls, looping, activeId, ok) ==
    /\ storage' = SaveEffect(storage, src, ls, ok)
    /\ saveFailed' = IF SaveAttempted(src, ls) THEN ~ok ELSE saveFailed
    /\ IF LoopSeeks(looping, activeId, ls, currentTime)
       THEN /\ videoTime' = LoopTarget(activeId, ls)
            /\ pendingUpdate' = TRUE
       ELSE UNCHANGED << videoTime, pendingUpdate >>

\* addLoop (the dialog's Save button, or Enter in the naming input)
addLoop(ok) ==
    /\ Mounted
    /\ showAddLoop
    /\ IF AddLoopRejects
       THEN UNCHANGED vars
       ELSE /\ Len(loops) < MaxLoops
            /\ loops' = Append(loops, NewLoop)
            /\ newLoopName' = << >>
            /\ tempLoopStart' = NoTime
            /\ tempLoopEnd' = NoTime
            /\ showAddLoop' = FALSE
            /\ AfterSetLoops(Append(loops, NewLoop), isLooping, activeLoopId, ok)
            /\ UNCHANGED << src, isPlaying, currentTime, duration, chapters,
                            activeLoopId, isLooping, activeTab, videoDuration,
                            now, timer, inflight, crashed >>

\* the dialog's Cancel button: setShowAddLoop(false)
cancelDialog ==
    /\ Mounted
    /\ showAddLoop
    /\ showAddLoop' = FALSE
    /\ UNCHANGED << src, isPlaying, currentTime, duration, loops, chapters,
                    activeLoopId, isLooping, newLoopName, tempLoopStart,
                    tempLoopEnd, activeTab, videoTime, videoDuration,
                    pendingUpdate, storage, now, timer, inflight, crashed,
                    saveFailed >>

\* Escape
keyEscape ==
    /\ Mounted
    /\ isLooping' = FALSE
    /\ activeLoopId' = NoId
    /\ tempLoopStart' = NoTime
    /\ tempLoopEnd' = NoTime
    /\ showAddLoop' = FALSE
    /\ UNCHANGED << src, isPlaying, currentTime, duration, loops, chapters,
                    newLoopName, activeTab, videoTime, videoDuration,
                    pendingUpdate, storage, now, timer, inflight, crashed,
                    saveFailed >>

\* the key codes handleKeyPress switches on
KeyCodes == { "Space", "KeyA", "KeyB", "KeyN", "KeyC", "Escape" }

\* a variant of keyInInput that routes Escape although the target is the input
keyInInputRouted(code) ==
    /\ Mounted
    /\ showAddLoop
    /\ code \in KeyCodes
    /\ IF code = "Escape" THEN keyEscape ELSE UNCHANGED vars

\* a keydown whose target is the naming input, which has the focus when the
\* dialog opens (autoFocus): handleKeyPress returns before its switch
keyInInput(code) ==
    /\ Mounted
    /\ showAddLoop
    /\ code \in KeyCodes
    /\ UNCHANGED vars

---------------------------------------------------------------------------
(* Loop store and loop playback engine *)

\* a variant of deleteLoop that leaves the active loop and the looping flag
deleteLoopOnly(id, ok) ==
    /\ Mounted
    /\ loops' = FilterOut(loops, id)
    /\ AfterSetLoops(FilterOut(loops, id), isLooping, activeLoopId, ok)
    /\ UNCHANGED << src, isPlaying, currentTime, duration, chapters,
                    activeLoopId, isLooping, showAddLoop, newLoopName,
                    tempLoopStart, tempLoopEnd, activeTab, videoDuration, now,
                    timer, inflight, crashed >>

\* deleteLoop(loopId)
deleteLoop(id, ok) ==
    /\ Mounted
    /\ LET ls      == FilterOut(loops, id)
           active  == IF activeLoopId = id THEN NoId ELSE activeLoopId
           looping == IF activeLoopId = id THEN FALSE ELSE isLooping
       IN /\ loops' = ls
          /\ activeLoopId' = active
          /\ isLooping' = looping
          /\ AfterSetLoops(ls, looping, active, ok)
    /\ UNCHANGED << src, isPlaying, currentTime, duration, chapters,
                    showAddLoop, newLoopName, tempLoopStart, tempLoopEnd,
                    activeTab, videoDuration, now, timer, inflight, crashed >>

\* a variant of activateLoop that works as a toggle: activating the loop that
\* is active already disengages it
activateLoopToggle(id) ==
    /\ Mounted
    /\ IF activeLoopId = id /\ isLooping
       THEN /\ activeLoopId' = NoId
            /\ isLooping' = FALSE
            /\ UNCHANGED << videoTime, pendingUpdate >>
       ELSE /\ activeLoopId' = id
            /\ isLooping' = TRUE
            /\ IF FindLoop(loops, id) # 0
               THEN /\ videoTime' = Clamp(loops[FindLoop(loops, id)].start)
                    /\ pendingUpdate' = TRUE
               ELSE UNCHANGED << videoTime, pendingUpdate >>
    /\ UNCHANGED << src, isPlaying, currentTime, duration, loops, chapters,
                    showAddLoop, newLoopName, tempLoopStart, tempLoopEnd,
                    activeTab, videoDuration, storage, now, timer, inflight,
                    crashed, saveFailed >>

\* activateLoop(loopId); the active loop handling effect that follows a change
\* of activeLoopId or isLooping can only seek to the same loop's start
activateLoop(id) ==
    /\ Mounted
    /\ activeLoopId' = id
    /\ isLooping' = TRUE
    /\ IF FindLoop(loops, id) # 0
       THEN /\ videoTime' = Clamp(loops[FindLoop(loops, id)].start)
            /\ pendingUpdate' = TRUE
       ELSE UNCHANGED << videoTime, pendingUpdate >>
    /\ UNCHANGED << src, isPlaying, currentTime, duration, loops, chapters,
                    showAddLoop, newLoopName, tempLoopStart, tempLoopEnd,
                    activeTab, videoDuration, storage, now, timer, inflight,
                    crashed, saveFailed >>

\* a variant of stopLoop that turns looping off and keeps the active loop id
stopLoopKeepsId ==
    /\ Mounted
    /\ isLooping
    /\ activeLoopId # NoId
    /\ isLooping' = FALSE
    /\ UNCHANGED << src, isPlaying, currentTime, duration, loops, chapters,
                    activeLoopId, showAddLoop, newLoopName, tempLoopStart,
                    tempLoopEnd, activeTab, videoTime, videoDuration,
                    pendingUpdate, storage, now, timer, inflight, crashed,
                    saveFailed >>

\* a variant of stopLoop that also rewinds the element to the beginning
stopLoopRewinds ==
    /\ Mounted
    /\ isLooping
    /\ activeLoopId # NoId
    /\ isLooping' = FALSE
    /\ activeLoopId' = NoId
    /\ videoTime' = 0
    /\ pendingUpdate' = TRUE
    /\ UNCHANGED << src, isPlaying, currentTime, duration, loops, chapters,
                    showAddLoop, newLoopName, tempLoopStart, tempLoopEnd,
                    activeTab, videoDuration, storage, now, timer, inflight,
                    crashed, saveFailed >>

\* the Stop Loop button, rendered while isLooping && activeLoopId
stopLoop ==
    /\ Mounted
    /\ isLooping
    /\ activeLoopId # NoId
    /\ isLooping' = FALSE
    /\ activeLoopId' = NoId
    /\ UNCHANGED << src, isPlaying, currentTime, duration, loops, chapters,
                    showAddLoop, newLoopName, tempLoopStart, tempLoopEnd,
                    activeTab, videoTime, videoDuration, pendingUpdate,
                    storage, now, timer, inflight, crashed, saveFailed >>

\* the loop list's buttons exist for the loops on display in the loops tab
clickActivate ==
    /\ activeTab = "loops"
    /\ \E i \in 1..Len(loops) : activateLoop(loops[i].id)

clickDelete ==
    /\ activeTab = "loops"
    /\ \E i \in 1..Len(loops), ok \in BOOLEAN : deleteLoop(loops[i].id, ok)

---------------------------------------------------------------------------
(* Chapter bridge *)

\* the chapters the extraction backend may report
ChapterPool ==
    { [id |-> "c1", title |-> << "I" >>, start |-> 0, end |-> ChapterSpan],
      [id |-> "c2", title |-> << "V" >>, start |-> ChapterSpan, end |-> NoTime],
      [id |-> "c3", title |-> << "B" >>, start |-> ChapterSpan, end |-> 0],
      [id |-> "c4", title |-> << "O" >>, start |-> 2 * ChapterSpan, end |-> ChapterSpan] }

\* the chapter lists the backend may answer with
ChapterLists == { << >> } \cup { << c >> : c \in ChapterPool }

\* chapter.end || chapter.start + 30 (an absent end and an end of 0 are falsy)
ChapterEnd(c) ==
    IF c.end = NoTime \/ c.end = 0 THEN c.start + ChapterSpan ELSE c.end

\* the loop createLoopFromChapter constructs
LoopFromChapter(c) ==
    [id    |-> NewId,
     name  |-> c.title,
     start |-> c.start,
     end   |-> ChapterEnd(c),
     color |-> NextColor(loops)]

\* createLoopFromChapter(chapter), a button of the chapters tab
createLoopFromChapter(c, ok) ==
    /\ Mounted
    /\ Len(loops) < MaxLoops
    /\ loops' = Append(loops, LoopFromChapter(c))
    /\ activeTab' = "loops"
    /\ AfterSetLoops(Append(loops, LoopFromChapter(c)), isLooping, activeLoopId, ok)
    /\ UNCHANGED << src, isPlaying, currentTime, duration, chapters,
                    activeLoopId, isLooping, showAddLoop, newLoopName,
                    tempLoopStart, tempLoopEnd, videoDuration, now, timer,
                    inflight, crashed >>

clickCreateLoopFromChapter ==
    /\ activeTab = "chapters"
    /\ \E i \in 1..Len(chapters), ok \in BOOLEAN :
          createLoopFromChapter(chapters[i], ok)

\* jumpToChapter(chapter), a button of the chapters tab
jumpToChapter ==
    /\ Mounted
    /\ activeTab = "chapters"
    /\ \E i \in 1..Len(chapters) : videoTime' = Clamp(chapters[i].start)
    /\ pendingUpdate' = TRUE
    /\ UNCHANGED << src, isPlaying, currentTime, duration, loops, chapters,
                    activeLoopId, isLooping, showAddLoop, newLoopName,
                    tempLoopStart, tempLoopEnd, activeTab, videoDuration,
                    storage, now, timer, inflight, crashed, saveFailed >>

\* detectChapters up to its first await: skipped for a short or unknown
\* duration, else a request for the current file goes to the backend
DetectStarts == duration >= MinChapterDuration

\* the chapter trigger's timer fires: detectChapters()
timerFires ==
    /\ Mounted
    /\ timer
    /\ timer' = FALSE
    /\ IF DetectStarts
       THEN /\ Pending(inflight[src]) < MaxInflight
            /\ inflight' = [inflight EXCEPT ![src] = Issue(@)]
       ELSE UNCHANGED inflight
    /\ UNCHANGED << src, isPlaying, currentTime, duration, loops, chapters,
                    activeLoopId, isLooping, showAddLoop, newLoopName,
                    tempLoopStart, tempLoopEnd, activeTab, videoTime,
                    videoDuration, pendingUpdate, storage, now, crashed,
                    saveFailed >>

\* the Scan for Chapters button: detectChapters()
scanForChapters ==
    /\ Mounted
    /\ DetectStarts
    /\ Pending(inflight[src]) < MaxInflight
    /\ inflight' = [inflight EXCEPT ![src] = Issue(@)]
    /\ UNCHANGED << src, isPlaying, currentTime, duration, loops, chapters,
                    activeLoopId, isLooping, showAddLoop, newLoopName,
                    tempLoopStart, tempLoopEnd, activeTab, videoTime,
                    videoDuration, pendingUpdate, storage, now, timer, crashed,
                    saveFailed >>

\* a variant of detectDone that leaves the chapter list when the detection
\* fails
detectDoneKeeps(f, latest, ok, list) ==
    /\ IF latest THEN inflight[f].latest ELSE inflight[f].older > 0
    /\ inflight' = [inflight EXCEPT ![f] = Complete(@, latest)]
    /\ chapters' = IF Mounted /\ ok THEN list ELSE chapters
    /\ UNCHANGED << src, isPlaying, currentTime, duration, loops, activeLoopId,
                    isLooping, showAddLoop, newLoopName, tempLoopStart,
                    tempLoopEnd, activeTab, videoTime, videoDuration,
                    pendingUpdate, storage, now, timer, crashed, saveFailed >>

\* a detection for file f completes, the one started last (latest) or one
\* started before it: setChapters(extractedChapters) on success,
\* setChapters([]) in the catch block; a player no longer mounted ignores it
detectDone(f, latest, ok, list) ==
    /\ IF latest THEN inflight[f].latest ELSE inflight[f].older > 0
    /\ inflight' = [inflight EXCEPT ![f] = Complete(@, latest)]
    /\ chapters' = IF ~Mounted THEN chapters
                   ELSE IF ok THEN list ELSE << >>
    /\ UNCHANGED << src, isPlaying, currentTime, duration, loops, activeLoopId,
                    isLooping, showAddLoop, newLoopName, tempLoopStart,
                    tempLoopEnd, activeTab, videoTime, videoDuration,
                    pendingUpdate, storage, now, timer, crashed, saveFailed >>

---------------------------------------------------------------------------
(* View tabs *)

\* a tab button: setActiveTab(t)
clickTab(t) ==
    /\ Mounted
    /\ activeTab' = t
    /\ UNCHANGED << src, isPlaying, currentTime, duration, loops, chapters,
                    activeLoopId, isLooping, showAddLoop, newLoopName,
                    tempLoopStart, tempLoopEnd, videoTime, videoDuration,
                    pendingUpdate, storage, now, timer, inflight, crashed,
                    saveFailed >>

\* tabOrder.indexOf(activeTab), counted from 1
TabIndex(t) == CHOOSE i \in 1..Len(tabOrder) : tabOrder[i] = t

\* KeyC: the next tab of the rotation
keyC == clickTab(tabOrder[(TabIndex(activeTab) % Len(tabOrder)) + 1])

\* a keydown in a player rendered without src: the keyboard effect is declared
\* before the `if (!src)` return, so handleKeyPress is installed and runs its
\* switch; togglePlay is not initialised in that render, so Space throws in
\* the listener and changes nothing
keyNoVideo(code) ==
    /\ src = NoSrc
    /\ ~crashed
    /\ code \in KeyCodes
    /\ tempLoopStart' = IF code = "KeyA" THEN currentTime
                        ELSE IF code = "Escape" THEN NoTime ELSE tempLoopStart
    /\ tempLoopEnd' = IF code = "KeyB" THEN currentTime
                      ELSE IF code = "Escape" THEN NoTime ELSE tempLoopEnd
    /\ showAddLoop' = IF code = "KeyN"
                      THEN (showAddLoop \/ (tempLoopStart # NoTime /\ tempLoopEnd # NoTime))
                      ELSE IF code = "Escape" THEN FALSE ELSE showAddLoop
    /\ activeTab' = IF code = "KeyC"
                    THEN tabOrder[(TabIndex(activeTab) % Len(tabOrder)) + 1]
                    ELSE activeTab
    /\ isLooping' = IF code = "Escape" THEN FALSE ELSE isLooping
    /\ activeLoopId' = IF code = "Escape" THEN NoId ELSE activeLoopId
    /\ UNCHANGED << src, isPlaying, currentTime, duration, loops, chapters,
                    newLoopName, videoTime, videoDuration, pendingUpdate,
                    storage, now, timer, inflight, crashed, saveFailed >>

---------------------------------------------------------------------------
(* Specifications.  The controller's state is the product of its           *)
(* components' states, so each specification drives the handlers of one    *)
(* group of components, with the store contents an earlier session may     *)
(* have left as its initial states; the handlers are the same definitions  *)
(* in all of them.                                                         *)

\* a loop as addLoop saved it in an earlier session, the i-th of its list;
\* its id is the clock reading then: that of the first loop, or a later one
SavedLoopsAt(i) ==
    { l \in { [id |-> ToString(c), name |-> << "S" >>, start |-> a, end |-> b,
                color |-> loopColors[((i - 1) % Len(loopColors)) + 1]] :
                  c \in {0, i - 1}, a \in Times, b \in Times } :
        l.start <= l.end }

\* the loop lists an earlier session may have saved: one loop, or two
SavedLists ==
    { << l >> : l \in SavedLoopsAt(1) }
      \cup { << l, m >> : l \in SavedLoopsAt(1), m \in SavedLoopsAt(2) }

\* video A has loops saved by an earlier session
InitSaved ==
    /\ InitPlayer
    /\ \E ls \in SavedLists : storage = [v \in Videos |-> IF v = "A" THEN Stringify(ls) ELSE Absent]

\* nothing is stored yet
InitClean ==
    /\ InitPlayer
    /\ storage = [v \in Videos |-> Absent]

(* Temp marker workflow: marking, naming and committing loops *)
NextWorkflow ==
    \/ \E v \in Videos : SelectVideo(v, TRUE, TRUE)
    \/ Metadata(LongClip)
    \/ Advance(ChapterSpan)
    \/ TimeUpdate
    \/ markStart
    \/ markEnd
    \/ requestCommit
    \/ \E n \in Names : typeName(n)
    \/ addLoop(TRUE)
    \/ cancelDialog
    \/ keyEscape
    \/ \E code \in KeyCodes : keyInInput(code)

SpecWorkflow == InitClean /\ [][NextWorkflow]_vars

(* Loop store: loading, saving and deleting across videos and sessions *)
NextStore ==
    \/ \E v \in Videos : SelectVideo(v, TRUE, TRUE)
    \/ Restart
    \/ ClockTick
    \/ markStart
    \/ markEnd
    \/ requestCommit
    \/ typeName(<< "S" >>)
    \/ \E ok \in BOOLEAN : addLoop(ok)
    \/ clickDelete

SpecStore == Init /\ [][NextStore]_vars

(* Loop playback engine: activation, enforcement and deletion of loops *)
NextPlayback ==
    \/ \E v \in Videos : SelectVideo(v, TRUE, TRUE)
    \/ Metadata(LongClip)
    \/ \E t \in Times : Advance(t)
    \/ TimeUpdate
    \/ \E t \in Times : handleProgressClick(t)
    \/ clickActivate
    \/ clickDelete
    \/ stopLoop
    \/ keyEscape

SpecPlayback == InitSaved /\ [][NextPlayback]_vars

(* Video change: what a change of src resets *)
NextReset ==
    \/ \E v \in Videos : SelectVideo(v, TRUE, TRUE)
    \/ Metadata(LongClip)
    \/ (Mounted /\ Pending(inflight[src]) = 0 /\ scanForChapters)
    \/ \E f \in Videos, ok \in BOOLEAN, list \in ChapterLists :
          detectDone(f, TRUE, ok, list)
    \/ markStart
    \/ markEnd
    \/ clickActivate
    \/ stopLoop

SpecReset == InitSaved /\ [][NextReset]_vars

(* Adding loops: both ways a loop enters the collection, and its write *)
NextAdd ==
    \/ SelectVideo("A", TRUE, TRUE)
    \/ Metadata(LongClip)
    \/ (Mounted /\ Pending(inflight[src]) = 0 /\ scanForChapters)
    \/ \E list \in ChapterLists : detectDone("A", TRUE, TRUE, list)
    \/ clickTab("chapters")
    \/ clickCreateLoopFromChapter
    \/ markStart
    \/ markEnd
    \/ requestCommit
    \/ typeName(<< "S" >>)
    \/ \E ok \in BOOLEAN : addLoop(ok)
    \/ Restart
    \/ ClockTick

SpecAdd == InitClean /\ [][NextAdd]_vars

\* the ids a caller of activateLoop may pass: those a loop may carry, and one
\* no loop ever carries
LoopIds == { ToString(c) : c \in 0..MaxClock } \cup { "none" }

(* Loop playback engine, driven through its operations rather than the    *)
(* loop list's buttons                                                    *)
NextApi ==
    \/ NextPlayback
    \/ \E id \in LoopIds : activateLoop(id)

SpecApi == InitSaved /\ [][NextApi]_vars

(* Chapter bridge: the automatic trigger, manual rescans and the answers   *)
(* of the backend, in any order                                           *)
NextChapters ==
    \/ \E v \in Videos : SelectVideo(v, TRUE, TRUE)
    \/ \E d \in Durations : Metadata(d)
    \/ timerFires
    \/ scanForChapters
    \/ \E f \in Videos, latest \in BOOLEAN, ok \in BOOLEAN, list \in ChapterLists :
          detectDone(f, latest, ok, list)

SpecChapters == InitClean /\ [][NextChapters]_vars

Spec == SpecWorkflow

---------------------------------------------------------------------------
(* Claims *)

\* C1: in every reachable state every loop of the in-memory collection
\* satisfies 0 <= start < end, whatever sequence of markStart, markEnd,
\* requestCommit and confirmName produced it.
C1_LoopsWellFormed ==
    \A i \in 1..Len(loops) : 0 <= loops[i].start /\ loops[i].start < loops[i].end

\* C2, as stated: on every position update (the timeupdate listener runs with
\* the element's position), a seek to the active loop's start is issued if
\* looping is enabled, an active loop is set and the position is >= that
\* loop's end, and no seek is issued if one of the three is false.  Stated
\* for loops with start < end.  A seek leaves a timeupdate pending.
C2_SeekOnEveryUpdate ==
    [][ (TimeUpdate
          /\ \A k \in 1..Len(loops) : loops[k].start < loops[k].end)
        => LET i == FindLoop(loops, activeLoopId)
               due == /\ isLooping
                      /\ activeLoopId # NoId
                      /\ i # 0
                      /\ videoTime >= loops[i].end
           IN IF due
              THEN pendingUpdate' /\ videoTime' = loops[i].start
              ELSE ~pendingUpdate' /\ videoTime' = videoTime ]_vars

\* C2, amended: on every position update that changes the position the
\* controller holds, a seek to the active loop's start is issued if looping
\* is enabled, an active loop is set and the new position is >= that loop's
\* end; on every position update, no seek is issued if one of the three is
\* false.
C2_SeekOnPositionChange ==
    [][ TimeUpdate
        => LET i == FindLoop(loops, activeLoopId)
               due == /\ isLooping
                      /\ activeLoopId # NoId
                      /\ i # 0
                      /\ videoTime >= loops[i].end
           IN /\ (due /\ currentTime' # currentTime)
                    => (pendingUpdate' /\ videoTime' = loops[i].start)
              /\ ~due => (~pendingUpdate' /\ videoTime' = videoTime) ]_vars

\* C2 witness: a loop with start < end is active and looping, and an update
\* with a new position at or past its end is about to be delivered
C2_UpdatePastEndPending ==
    /\ ENABLED TimeUpdate
    /\ isLooping
    /\ videoTime # currentTime
    /\ \E i \in 1..Len(loops) :
          /\ i = FindLoop(loops, activeLoopId)
          /\ loops[i].start < loops[i].end
          /\ videoTime > loops[i].end

\* C3: confirmName from Naming with both pending markers set and a name that
\* is not blank appends exactly one loop with start = min and end = max of the
\* markers (whichever was marked first) and the name without its leading and
\* trailing blanks, and leaves both markers unset and the dialog closed.
C3_ConfirmNameAppends ==
    [][ ( /\ showAddLoop
          /\ tempLoopStart # NoTime
          /\ tempLoopEnd # NoTime
          /\ \E k \in 1..Len(newLoopName) : newLoopName[k] # " "
          /\ addLoop(TRUE) )
        => /\ Len(loops') = Len(loops) + 1
           /\ SubSeq(loops', 1, Len(loops)) = loops
           /\ LET l     == loops'[Len(loops')]
                  n     == newLoopName
                  first == CHOOSE k \in 1..Len(n) :
                              n[k] # " " /\ \A j \in 1..(k - 1) : n[j] = " "
                  last  == CHOOSE k \in 1..Len(n) :
                              n[k] # " " /\ \A j \in (k + 1)..Len(n) : n[j] = " "
              IN /\ l.start <= l.end
                 /\ {l.start, l.end} = {tempLoopStart, tempLoopEnd}
                 /\ l.name = SubSeq(n, first, last)
           /\ tempLoopStart' = NoTime
           /\ tempLoopEnd' = NoTime
           /\ ~showAddLoop' ]_vars

\* C3 witness: a committed loop from 0 to ChapterSpan named "S" is the
\* collection, the markers are unset and the dialog is closed
C3_LoopCommitted ==
    /\ Mounted
    /\ Len(loops) = 1
    /\ loops[1].start = 0
    /\ loops[1].end = ChapterSpan
    /\ loops[1].name = << "S" >>
    /\ tempLoopStart = NoTime
    /\ tempLoopEnd = NoTime
    /\ ~showAddLoop

\* C4: deleting a loop whose id is the active loop id leaves isLooping false
\* and the active loop id cleared, and the collection is the old one without
\* the loops of that id.
C4_DeleteActiveDisengages ==
    [][ \A i \in 1..Len(loops), ok \in BOOLEAN :
          (loops[i].id = activeLoopId /\ deleteLoop(loops[i].id, ok))
          => /\ ~isLooping'
             /\ activeLoopId' = NoId
             /\ \A j \in 1..Len(loops') : loops'[j].id # loops[i].id
             /\ loops' = SelectSeq(loops, LAMBDA l : l.id # loops[i].id) ]_vars

\* C4 witness: a loop of the collection is active and looping, among two
\* loops, and its delete button can be clicked
C4_ActiveLoopDeletable ==
    /\ isLooping
    /\ Len(loops) = 2
    /\ \E i \in 1..Len(loops) :
          /\ loops[i].id = activeLoopId
          /\ ENABLED (clickDelete /\ activeLoopId' = NoId)

\* C5: activateLoop(id) with an id that no loop of the collection carries is
\* a no-op: the active loop id, the looping flag and the playback position
\* are unchanged.
C5_ActivateMissingIsNoOp ==
    [][ \A id \in LoopIds :
          (FindLoop(loops, id) = 0 /\ activateLoop(id))
          => UNCHANGED << activeLoopId, isLooping, videoTime >> ]_vars

\* C6: activateLoop(id) for an id in the collection makes id the active loop
\* id, enables looping and seeks to the start of the loop found for id (the
\* first that carries it), whatever the position was; done again right after,
\* it leaves the same active id and looping flag and seeks to the start again.
C6_ActivateSeeksToStart ==
    [][ \A i \in 1..Len(loops) :
          ( /\ \A j \in 1..(i - 1) : loops[j].id # loops[i].id
            /\ activateLoop(loops[i].id) )
          => /\ activeLoopId' = loops[i].id
             /\ isLooping'
             /\ pendingUpdate'
             /\ videoTime' = IF videoDuration > 0 /\ loops[i].start > videoDuration
                             THEN videoDuration ELSE loops[i].start
             /\ (activeLoopId = loops[i].id /\ isLooping)
                  => UNCHANGED << activeLoopId, isLooping >> ]_vars

\* C6 witness: a loop is active and looping and the element has been sent to
\* its start from a later position inside the loop, which the controller
\* still holds
C6_ActivatedFromInside ==
    /\ isLooping
    /\ pendingUpdate
    /\ \E i \in 1..Len(loops) :
          /\ i = FindLoop(loops, activeLoopId)
          /\ videoTime = loops[i].start
          /\ currentTime > loops[i].start
          /\ currentTime < loops[i].end

\* C7: a change of the video key (src) leaves pendingStart and pendingEnd
\* unset, the active loop id null, the looping flag false and the chapter list
\* empty, whatever they were before.
C7_VideoChangeResets ==
    [][ src' # src
        => /\ tempLoopStart' = NoTime
           /\ tempLoopEnd' = NoTime
           /\ activeLoopId' = NoId
           /\ ~isLooping'
           /\ chapters' = << >> ]_vars

\* C7 witness: both markers are set, a loop is active and looping, chapters
\* are listed, and the other video can be selected
C7_AllSetBeforeChange ==
    /\ src = "A"
    /\ tempLoopStart # NoTime
    /\ tempLoopEnd # NoTime
    /\ activeLoopId # NoId
    /\ isLooping
    /\ chapters # << >>
    /\ ENABLED SelectVideo("B", TRUE, TRUE)

\* C8: round trip.  After every add or delete under a video key whose save
\* did not fail, loading the loops of that key (as a fresh session does)
\* yields the collection in memory: same ids, names, bounds, colors, order.
C8_RoundTrip ==
    [][ (src' = src /\ loops' # loops /\ ~saveFailed')
        => LoadLoops(storage'[src']) = loops' ]_vars

\* C9: after every addLoop, by confirmName or by chapter promotion, whose
\* store write succeeded, the value persisted under the current video key is
\* the full updated collection, the new loop included, when the step ends
\* (before any further event is processed).
C9_AddPersistsAll ==
    [][ ( /\ \/ \E ok \in BOOLEAN : addLoop(ok)
             \/ \E i \in 1..Len(chapters), ok \in BOOLEAN :
                   createLoopFromChapter(chapters[i], ok)
          /\ loops' # loops
          /\ ~saveFailed' )
        => /\ Len(loops') = Len(loops) + 1
           /\ SubSeq(loops', 1, Len(loops)) = loops
           /\ storage'[src].kind = "array"
           /\ Len(storage'[src].items) = Len(loops')
           /\ \A i \in 1..Len(loops') :
                 storage'[src].items[i] =
                    << loops'[i].id, loops'[i].name, loops'[i].start,
                       loops'[i].end, loops'[i].color >> ]_vars

\* C9 witness: a loop committed by name and a loop promoted from the first
\* chapter are the collection, and the store holds both under the video key
C9_BothAddsPersisted ==
    /\ Mounted
    /\ ~saveFailed
    /\ Len(loops) = 2
    /\ loops[1].name = << "S" >>
    /\ loops[2].name = << "I" >>
    /\ Len(storage[src].items) = 2
    /\ storage[src].items[2][2] = << "I" >>

\* C10: loading the loops of a video key yields the persisted collection, or
\* the empty collection when nothing is persisted or the payload is corrupt
\* (unparseable, or parseable but not a sequence), and never leaves the
\* controller failed.
C10_LoadDegradesToEmpty ==
    [][ (src' # src /\ src' # NoSrc)
        => /\ ~crashed'
           /\ loops' = IF storage[src'].kind = "array"
                       THEN Parse(storage[src']) ELSE << >> ]_vars

\* C11: a chapter detection for the current video that was started before
\* another one, and completes after that later one has completed, does not
\* change the chapter list: only the result of the request started last is
\* applied.
C11_LatestRequestWins ==
    [][ \A ok \in BOOLEAN, list \in ChapterLists :
          ( /\ Mounted
            /\ ~inflight[src].latest
            /\ detectDone(src, FALSE, ok, list) )
          => chapters' = chapters ]_vars

\* C12: when a chapter detection completes with failure the chapter list
\* becomes empty, and when it completes with success the chapter list is the
\* returned list, whatever the list held before (so a failed detection
\* followed by a successful rescan ends with the rescan's result).
C12_CompletionReplacesChapters ==
    [][ \A f \in Videos, latest \in BOOLEAN, ok \in BOOLEAN, list \in ChapterLists :
          (Mounted /\ detectDone(f, latest, ok, list))
          => chapters' = IF ok THEN list ELSE << >> ]_vars

\* C12 witness: every detection of the current video has completed and the
\* chapter list is populated
C12_ChaptersPopulated ==
    /\ Mounted
    /\ Pending(inflight[src]) = 0
    /\ chapters # << >>

\* C13: pressing Escape while a video is loaded, from any state and wherever
\* the focus is, leaves pendingStart and pendingEnd unset, looping disabled,
\* the active loop id cleared and the naming dialog dismissed: no state has
\* an Escape press that ends otherwise.
C13_EscapeClearsAll ==
    ~ENABLED ( /\ keyEscape \/ keyInInput("Escape")
               /\ ~( /\ tempLoopStart' = NoTime
                     /\ tempLoopEnd' = NoTime
                     /\ ~isLooping'
                     /\ activeLoopId' = NoId
                     /\ ~showAddLoop' ) )

\* C14: confirmName with pendingStart = pendingEnd (a zero-length interval)
\* is rejected: no loop is added, the dialog stays open and both markers
\* stay set.
C14_ZeroLengthRejected ==
    [][ ( /\ showAddLoop
          /\ tempLoopStart # NoTime
          /\ tempLoopStart = tempLoopEnd
          /\ addLoop(TRUE) )
        => /\ loops' = loops
           /\ showAddLoop'
           /\ UNCHANGED << tempLoopStart, tempLoopEnd >> ]_vars

\* C15: confirmName with an empty or whitespace-only name is rejected: in
\* every state with the dialog open and such a name, no confirmName changes
\* the loop collection, pendingStart, pendingEnd or the persisted store, or
\* closes the dialog.
C15_BlankNameRejected ==
    ( /\ Mounted
      /\ showAddLoop
      /\ \A k \in 1..Len(newLoopName) : newLoopName[k] = " " )
    => \A ok \in BOOLEAN :
          ~ENABLED ( /\ addLoop(ok)
                     /\ ~( /\ loops' = loops
                           /\ tempLoopStart' = tempLoopStart
                           /\ tempLoopEnd' = tempLoopEnd
                           /\ storage' = storage
                           /\ showAddLoop' ) )

\* C15 witness: the dialog is open with both markers set and a name of one
\* blank, and confirmName can be pressed
C15_BlankNameInDialog ==
    /\ showAddLoop
    /\ tempLoopStart # NoTime
    /\ tempLoopEnd # NoTime
    /\ tempLoopStart # tempLoopEnd
    /\ newLoopName = << " " >>
    /\ Len(loops) < MaxLoops
    /\ ENABLED addLoop(TRUE)

\* C16: in every reachable state in which the naming dialog is open, both
\* pendingStart and pendingEnd are set.
C16_DialogHasMarkers ==
    showAddLoop => (tempLoopStart # NoTime /\ tempLoopEnd # NoTime)

\* C17: cancel, by Escape or by the Cancel button of the naming dialog,
\* leaves pendingStart and pendingEnd unset and the dialog closed, and the
\* loop collection and the persisted store as they were.
C17_CancelResetsToEmpty ==
    [][ (cancelDialog \/ keyEscape)
        => /\ tempLoopStart' = NoTime
           /\ tempLoopEnd' = NoTime
           /\ ~showAddLoop'
           /\ UNCHANGED << loops, storage >> ]_vars

\* C18: promoting a chapter appends one loop named after the chapter, starting
\* at the chapter's start and ending at the chapter's end when the chapter has
\* one; the end is start + ChapterSpan only when the chapter has no end.
C18_PromotionKeepsChapterEnd ==
    [][ \A c \in ChapterPool, ok \in BOOLEAN :
          ( /\ activeTab = "chapters"
            /\ \E i \in 1..Len(chapters) : chapters[i] = c
            /\ createLoopFromChapter(c, ok) )
          => /\ Len(loops') = Len(loops) + 1
             /\ SubSeq(loops', 1, Len(loops)) = loops
             /\ loops'[Len(loops')].name = c.title
             /\ loops'[Len(loops')].start = c.start
             /\ loops'[Len(loops')].end =
                   IF c.end = NoTime THEN c.start + ChapterSpan ELSE c.end ]_vars

\* C19: in every reachable state the loops of the collection have pairwise
\* distinct ids, also when two of them were created at the same clock reading.
C19_IdsPairwiseDistinct ==
    \A i, j \in 1..Len(loops) : i # j => loops[i].id # loops[j].id

(* Palette: loops are created one after the other and every loop but the   *)
(* newest may be deleted, so the last loop of the collection is always the *)
(* one created most recently                                               *)
NextPalette ==
    \/ SelectVideo("A", TRUE, TRUE)
    \/ Metadata(LongClip)
    \/ Advance(ChapterSpan)
    \/ TimeUpdate
    \/ ClockTick
    \/ markStart
    \/ markEnd
    \/ requestCommit
    \/ typeName(<< "S" >>)
    \/ addLoop(TRUE)
    \/ \E i \in 1..Len(loops) :
          /\ activeTab = "loops"
          /\ loops[i].id # loops[Len(loops)].id
          /\ deleteLoop(loops[i].id, TRUE)

SpecPalette == InitClean /\ [][NextPalette]_vars

\* C20: colors follow the creation order, so a loop never gets the color of
\* the loop created just before it, whatever was deleted in between.
C20_ConsecutiveColorsDiffer ==
    [][ (loops # << >> /\ Len(loops') = Len(loops) + 1)
        => loops'[Len(loops')].color # loops[Len(loops)].color ]_vars

(* Keyboard command router: the keys, with the naming input focused or not *)
NextKeys ==
    \/ \E v \in Videos : SelectVideo(v, TRUE, TRUE)
    \/ Restart
    \/ togglePlay
    \/ markStart
    \/ markEnd
    \/ requestCommit
    \/ keyC
    \/ keyEscape
    \/ typeName(<< "S" >>)
    \/ addLoop(TRUE)
    \/ clickActivate
    \/ \E code \in KeyCodes : keyInInput(code)

SpecKeys == InitClean /\ [][NextKeys]_vars

\* C21: a key (Space, A, B, N, C, Escape) pressed while the naming input has
\* the focus changes none of play state, pending markers, naming dialog,
\* active tab, active loop and looping flag.
C21_KeyInInputChangesNothing ==
    \A code \in KeyCodes :
       ~ENABLED ( /\ keyInInput(code)
                  /\ ~UNCHANGED << isPlaying, tempLoopStart, tempLoopEnd,
                                   showAddLoop, activeTab, activeLoopId,
                                   isLooping >> )

\* the naming dialog is open while a loop is active and playing
C21_TypingWhileLooping ==
    /\ Mounted
    /\ showAddLoop
    /\ isLooping
    /\ activeLoopId # NoId
    /\ isPlaying
    /\ activeTab = "chapters"
    /\ ENABLED keyInInput("Escape")

(* The player on its own, rendered before any src is passed to it (src is  *)
(* an optional property, and the player renders a placeholder without it)  *)
NextStandalone ==
    \/ \E code \in KeyCodes : keyNoVideo(code)
    \/ \E v \in Videos : SelectVideo(v, TRUE, TRUE)
    \/ Restart
    \/ Metadata(LongClip)
    \/ Advance(ChapterSpan)
    \/ TimeUpdate
    \/ togglePlay
    \/ markStart
    \/ markEnd
    \/ requestCommit
    \/ keyC
    \/ keyEscape

SpecStandalone == InitClean /\ [][NextStandalone]_vars

\* C22: while no video source is set, the keys A, B, N, C, Space and Escape
\* change no state; in particular no pending marker is set.
C22_NoVideoNoKeys ==
    [][ \A code \in KeyCodes : keyNoVideo(code) => UNCHANGED vars ]_vars

\* C23: stopLoop turns looping off and clears the active loop id, and leaves
\* the playback position, the loop collection and the pending markers as
\* they were.
C23_StopLoopKeepsPosition ==
    [][ stopLoop
        => /\ ~isLooping'
           /\ activeLoopId' = NoId
           /\ UNCHANGED << videoTime, currentTime, pendingUpdate, loops,
                           tempLoopStart, tempLoopEnd >> ]_vars

\* the Stop Loop button is on display while the element rests on the start of
\* the active loop, away from the beginning, and a start marker is pending
C23_StopButtonShown ==
    /\ ENABLED stopLoop
    /\ tempLoopStart # NoTime
    /\ videoTime > 0
    /\ \E i \in 1..Len(loops) :
          i = FindLoop(loops, activeLoopId) /\ videoTime = loops[i].start

\* C24: in every reachable state the active loop id is unset or is the id of
\* a loop of the collection.
C24_ActiveIdInCollection ==
    activeLoopId = NoId \/ FindLoop(loops, activeLoopId) # 0

\* C25: a chapter detection started for a video other than the current one
\* does not populate the chapter list when it completes: the list stays as it
\* is or is empty.
C25_StaleDetectionIgnored ==
    [][ \A f \in Videos, latest \in BOOLEAN, ok \in BOOLEAN, list \in ChapterLists :
          (Mounted /\ f # src /\ detectDone(f, latest, ok, list))
          => (chapters' = chapters \/ chapters' = << >>) ]_vars

\* C26: after deleteLoop removed a loop, the last one of a video included, the
\* collection stored under the current video key loads as the collection in
\* memory.
C26_DeletePersists ==
    [][ \A i \in 1..Len(loops) :
          deleteLoop(loops[i].id, TRUE) => LoadLoops(storage'[src]) = loops' ]_vars

\* C27: when the video key changes from one video to another, the value
\* stored under the new key after the change is the value stored under it
\* before, or absent: loops created for the old video are not written there.
C27_ChangeKeepsOtherStore ==
    [][ \A v \in Videos :
          (Mounted /\ loops # << >> /\ SelectVideo(v, TRUE, TRUE))
          => (storage'[v] = storage[v] \/ storage'[v] = Absent) ]_vars

(* Loop playback under continuous play: the element keeps playing and its  *)
(* timeupdate events keep being delivered                                  *)
NextLoopLive ==
    \/ SelectVideo("A", TRUE, TRUE)
    \/ Metadata(LongClip)
    \/ Play
    \/ TimeUpdate
    \/ clickActivate
    \/ stopLoop

SpecLoopLive ==
    /\ InitSaved
    /\ [][NextLoopLive]_vars
    /\ WF_vars(Play)
    /\ WF_vars(TimeUpdate)

\* a loop with start < end is active and looping
ActiveProper ==
    /\ Mounted
    /\ isLooping
    /\ FindLoop(loops, activeLoopId) # 0
    /\ loops[FindLoop(loops, activeLoopId)].start < loops[FindLoop(loops, activeLoopId)].end

\* C28: while a loop with start < end stays active and looping and the
\* position updates arrive with a step of at most UpdateStep, the position is
\* on the loop's start again and again, and it never exceeds the loop's end
\* by more than UpdateStep.
C28_LoopRepeatsBounded ==
    /\ [](ActiveProper
           => videoTime <= loops[FindLoop(loops, activeLoopId)].end + UpdateStep)
    /\ (<>[]ActiveProper
           => []<>(ActiveProper
                    /\ videoTime = loops[FindLoop(loops, activeLoopId)].start))

\* the element has played past the end of the active loop, and the update
\* that reports it awaits its listener
C28_Overshoot ==
    /\ ActiveProper
    /\ pendingUpdate
    /\ videoTime > loops[FindLoop(loops, activeLoopId)].end
    /\ currentTime < loops[FindLoop(loops, activeLoopId)].end

(* Automatic chapter detection alone: video A is loaded, then video B, each *)
(* once in a session; nobody presses Scan and the backend has not answered, *)
(* so the detections awaiting the backend for a file are the automatic      *)
(* requests made for it                                                     *)
NextAuto ==
    \/ (src = NoSrc /\ SelectVideo("A", TRUE, TRUE))
    \/ (src = "A" /\ SelectVideo("B", TRUE, TRUE))
    \/ \E d \in Durations : Metadata(d)
    \/ timerFires
    \/ Play
    \/ TimeUpdate
    \/ Restart

SpecAuto == InitClean /\ [][NextAuto]_vars

\* C29: automatic chapter detection is initiated at most once for a newly
\* loaded video, whatever duration notifications arrive and whatever duration
\* the previous video left behind.
C29_OneAutomaticRequest ==
    \A v \in Videos : Pending(inflight[v]) <= 1

\* C30: in every reachable state the looping flag is true exactly when an
\* active loop id is set.
C30_LoopingIffActive ==
    isLooping <=> (activeLoopId # NoId)

\* a loop is active and looping, and each way to end that is at hand: the Stop
\* Loop button, Escape, the loop's delete button and another video
C30_LoopingCanEnd ==
    /\ isLooping
    /\ activeLoopId # NoId
    /\ ENABLED (stopLoop /\ ~isLooping')
    /\ ENABLED (keyEscape /\ ~isLooping')
    /\ ENABLED (clickDelete /\ ~isLooping')
    /\ ENABLED (SelectVideo("B", TRUE, TRUE) /\ ~isLooping')

====
